---- MODULE Spec2Model ----
(***************************************************************************)
(* SF Street Conditions (src/app.py): the photo feed of the dashboard.     *)
(*                                                                         *)
(* The model follows one run of the script's feed section: the upstream    *)
(* feed query (get_soma_data), the pre-processing loop over its rows       *)
(* (duplicate filter, URL type detection) and, for portal links, the       *)
(* multi-request resolution of fetch_verint_image behind its cache.        *)
(*                                                                         *)
(* Python text is a TLA+ string, handled with Len, SubSeq and \o.  Bytes   *)
(* are written as the lower-case hex string of their values.  A Python     *)
(* value that may be None, a float NaN, text or bytes is a record          *)
(* [t |-> tag, v |-> string].                                              *)
(***************************************************************************)
EXTENDS Integers, Sequences, FiniteSets, TLC

(***************************************************************************)
(* Python values                                                           *)
(***************************************************************************)
None == [t |-> "none", v |-> ""]
NaN == [t |-> "nan", v |-> ""]
Str(s) == [t |-> "str", v |-> s]
Bytes(h) == [t |-> "bytes", v |-> h]

\* str(x): the text Python prints for a value.
PyStr(x) ==
    CASE x.t = "none" -> "None"
      [] x.t = "nan" -> "nan"
      [] OTHER -> x.v

\* bool(x): None, "" and b"" are false; every other value (NaN too) is true.
Truthy(x) ==
    CASE x.t = "none" -> FALSE
      [] x.t = "nan" -> TRUE
      [] OTHER -> x.v # ""

(***************************************************************************)
(* Text primitives (str.lower, in, endswith, split, strip)                 *)
(***************************************************************************)
UpperLetters == "ABCDEFGHIJKLMNOPQRSTUVWXYZ"
LowerLetters == "abcdefghijklmnopqrstuvwxyz"

Char(s, i) == SubSeq(s, i, i)

LowerChar(c) ==
    IF \E k \in 1..26 : Char(UpperLetters, k) = c
    THEN Char(LowerLetters, CHOOSE k \in 1..26 : Char(UpperLetters, k) = c)
    ELSE c

RECURSIVE Lower(_)
Lower(s) ==
    IF s = "" THEN ""
    ELSE LowerChar(Char(s, 1)) \o Lower(SubSeq(s, 2, Len(s)))

\* sub in s
Contains(s, sub) ==
    \E k \in 1..(Len(s) - Len(sub) + 1) : SubSeq(s, k, k + Len(sub) - 1) = sub

EndsWith(s, suf) ==
    /\ Len(suf) <= Len(s)
    /\ SubSeq(s, Len(s) - Len(suf) + 1, Len(s)) = suf

\* s.find(c) for a one-character c, 1-based; 0 when c does not occur.
Find(s, c) ==
    IF Contains(s, c)
    THEN CHOOSE k \in 1..Len(s) :
            /\ Char(s, k) = c
            /\ \A j \in 1..(k - 1) : Char(s, j) # c
    ELSE 0

\* s.split(c): the pieces between every occurrence of c.
RECURSIVE Split(_, _)
Split(s, c) ==
    LET k == Find(s, c)
    IN  IF k = 0 THEN <<s>>
        ELSE <<SubSeq(s, 1, k - 1)>> \o Split(SubSeq(s, k + 1, Len(s)), c)

\* s.split(c, 1): at most one cut, at the first c.
Split1(s, c) ==
    LET k == Find(s, c)
    IN  IF k = 0 THEN <<s>>
        ELSE <<SubSeq(s, 1, k - 1), SubSeq(s, k + 1, Len(s))>>

RECURSIVE LStrip(_)
LStrip(s) ==
    IF s # "" /\ Char(s, 1) = " " THEN LStrip(SubSeq(s, 2, Len(s))) ELSE s

RECURSIVE RStrip(_)
RStrip(s) ==
    IF s # "" /\ Char(s, Len(s)) = " "
    THEN RStrip(SubSeq(s, 1, Len(s) - 1))
    ELSE s

Strip(s) == RStrip(LStrip(s))

(***************************************************************************)
(* URL type detection (feed loop)                                          *)
(***************************************************************************)
\* A media reference is [form, t, v]: form "plain" is the column value
\* itself, form "dict" a structured value whose .get('url') is [t, v].
MediaUrlOf(url_data) == [t |-> url_data.t, v |-> url_data.v]

DirectExtensions == <<".jpg", ".jpeg", ".png", ".webp">>

PortalMarker == "verintcloudservices"

IsDuplicateCaseSensitive(row) ==
    Contains(PyStr(row.status_notes), "duplicate")

IsDuplicate(row) == Contains(Lower(PyStr(row.status_notes)), "duplicate")

IsDirectCaseSensitive(url) ==
    \E k \in 1..Len(DirectExtensions) :
        Contains(PyStr(url), DirectExtensions[k])

IsDirect(url) ==
    \E k \in 1..Len(DirectExtensions) :
        Contains(Lower(PyStr(url)), DirectExtensions[k])

IsPortal(url) == Contains(PyStr(url), PortalMarker)

\* The branch the if/elif at the URL Type Detection takes.
Classify(url) ==
    IF IsDirect(url) THEN "DirectImage"
    ELSE IF IsPortal(url) THEN "PortalWrapper"
    ELSE "Unusable"

(***************************************************************************)
(* fetch_verint_image, step 1: the case id of the wrapper URL              *)
(***************************************************************************)
\* urlparse(wrapper_url).query: the fragment is cut at the first '#', the
\* query starts after the first '?' of what is left.
UrlQuery(wrapper_url) ==
    LET nofrag == Split1(wrapper_url, "#")[1]
        parts == Split1(nofrag, "?")
    IN  IF Len(parts) = 2 THEN parts[2] ELSE ""

\* parse_qs(query): the name/value pairs in order; a field without '=' or
\* with an empty value is dropped (keep_blank_values is off).  The model's
\* URLs hold no '%' and no '+', so unquoting changes nothing.
RECURSIVE PairsOf(_)
PairsOf(fields) ==
    IF fields = <<>> THEN <<>>
    ELSE LET nv == Split1(fields[1], "=")
             rest == PairsOf(Tail(fields))
         IN  IF Len(nv) = 2 /\ nv[2] # ""
             THEN <<[name |-> nv[1], value |-> nv[2]]>> \o rest
             ELSE rest

ParseQs(query) == PairsOf(Split(query, "&"))

CaseIdWithDefault(wrapper_url) ==
    LET hits == SelectSeq(ParseQs(UrlQuery(wrapper_url)),
                          LAMBDA p : p.name = "caseid")
    IN  IF hits = <<>> THEN Str("0") ELSE Str(hits[1].value)

\* qs.get('caseid', [None])[0]
CaseId(wrapper_url) ==
    LET hits == SelectSeq(ParseQs(UrlQuery(wrapper_url)),
                          LAMBDA p : p.name = "caseid")
    IN  IF hits = <<>> THEN None ELSE Str(hits[1].value)

(***************************************************************************)
(* fetch_verint_image, step 6: the filename filter                         *)
(***************************************************************************)
MapMarkers == <<"m.jpg", "_map.jpg", "_map.jpeg">>

PhotoExtensions == <<".jpg", ".jpeg", ".png">>

IsMapNameUnderscoreOnly(f_lower) ==
    \E k \in 2..Len(MapMarkers) : Contains(f_lower, MapMarkers[k])

\* any(x in f_lower for x in [...])
IsMapName(f_lower) ==
    \E k \in 1..Len(MapMarkers) : Contains(f_lower, MapMarkers[k])

IsPhotoName(f_lower) ==
    \E k \in 1..Len(PhotoExtensions) : EndsWith(f_lower, PhotoExtensions[k])

\* The for loop over filename_str.split(';'): the first entry that passes
\* every test, None when the loop ends without a break.
RECURSIVE FirstTarget(_)
FirstTarget(fnames) ==
    IF fnames = <<>> THEN None
    ELSE LET fname == Strip(fnames[1])
             f_lower == Lower(fname)
         IN  IF fname = "" THEN FirstTarget(Tail(fnames))
             ELSE IF IsMapName(f_lower) THEN FirstTarget(Tail(fnames))
             ELSE IF IsPhotoName(f_lower) THEN Str(fname)
             ELSE FirstTarget(Tail(fnames))

RECURSIVE FirstTargetKeepsMaps(_)
FirstTargetKeepsMaps(fnames) ==
    IF fnames = <<>> THEN None
    ELSE LET fname == Strip(fnames[1])
         IN  IF fname = "" THEN FirstTargetKeepsMaps(Tail(fnames))
             ELSE IF IsPhotoName(Lower(fname)) THEN Str(fname)
             ELSE FirstTargetKeepsMaps(Tail(fnames))

SelectFilenameKeepsMaps(filename_str) ==
    FirstTargetKeepsMaps(Split(filename_str, ";"))

SelectFilename(filename_str) == FirstTarget(Split(filename_str, ";"))

(***************************************************************************)
(* fetch_verint_image, step 7: base64.b64decode                            *)
(***************************************************************************)
B64Alphabet ==
    "ABCDEFGHIJKLMNOPQRSTUVWXYZabcdefghijklmnopqrstuvwxyz0123456789+/"

HexDigits == "0123456789abcdef"

\* The 6-bit value of a base64 character, -1 for any other character.
B64Value(c) ==
    IF \E k \in 1..64 : Char(B64Alphabet, k) = c
    THEN (CHOOSE k \in 1..64 : Char(B64Alphabet, k) = c) - 1
    ELSE -1

HexByte(n) ==
    Char(HexDigits, (n \div 16) + 1) \o Char(HexDigits, (n % 16) + 1)

\* binascii.a2b_base64 in its lenient mode, one character at a time:
\* quad is the position in the current group of four, left the bits
\* carried over, pads the '=' seen in a row, out the bytes so far.
\* A character outside the alphabet is skipped; an '=' completing a group
\* ends the input; a group left open at the end is an error.
RECURSIVE A2B(_, _, _, _, _)
A2B(s, quad, left, pads, out) ==
    IF s = "" THEN
        IF quad = 0 THEN Bytes(out) ELSE [t |-> "error", v |-> "binascii.Error"]
    ELSE LET c == Char(s, 1)
             rest == SubSeq(s, 2, Len(s))
             x == B64Value(c)
         IN  IF c = "=" THEN
                 IF quad >= 2 /\ quad + pads + 1 >= 4 THEN Bytes(out)
                 ELSE A2B(rest, quad, left, IF quad >= 2 THEN pads + 1 ELSE pads, out)
             ELSE IF x = -1 THEN A2B(rest, quad, left, pads, out)
             ELSE CASE quad = 0 -> A2B(rest, 1, x, 0, out)
                    [] quad = 1 ->
                         A2B(rest, 2, x % 16, 0,
                             out \o HexByte(left * 4 + (x \div 16)))
                    [] quad = 2 ->
                         A2B(rest, 3, x % 4, 0,
                             out \o HexByte(left * 16 + (x \div 4)))
                    [] OTHER ->
                         A2B(rest, 0, 0, 0, out \o HexByte(left * 64 + x))

B64Decode(s) == A2B(s, 0, 0, 0, "")

\* Lines 148-149: cut the data-URI prefix, then decode.
StripPrefix(b64_data) ==
    IF Contains(b64_data, ",") THEN Split(b64_data, ",")[2] ELSE b64_data

(***************************************************************************)
(* Exceptions                                                              *)
(***************************************************************************)
Raise(kind) == [t |-> "error", v |-> kind]

IsError(x) == x.t = "error"

CatchesRequestErrorsOnly(kind) == kind \in {"Timeout", "ConnectionError"}

\* "except Exception: return None" around the whole body of
\* fetch_verint_image: every exception the body can raise is an Exception.
Catches(kind) == TRUE

(***************************************************************************)
(* What the outside world may answer                                       *)
(***************************************************************************)
MaxFeed == 2
MaxFiles == 2

\* Sequences over 1..Len(pool) of length 0..n, as tuples of pool entries.
SeqsUpTo(pool, n) ==
    UNION {[1..m -> {pool[k] : k \in 1..Len(pool)}] : m \in 0..n}

Row(form, url, notes) ==
    [media_url |-> [form |-> form, t |-> url.t, v |-> url.v],
     status_notes |-> notes]

PortalA == "https://sf.verintcloudservices.com/d?caseid=987"
PortalB == "https://sf.verintcloudservices.com/d?caseid=654"

\* Rows of the feed run: a direct image in the structured form, two portal
\* cases, a duplicate, a plain web link.
RowPool ==
    << Row("dict", Str("https://cdn.example.com/photo.jpg?x=1"), NaN),
       Row("plain", Str(PortalA), Str("Open")),
       Row("plain", Str(PortalB), Str("")),
       Row("plain", Str(PortalA), Str("Case is a DUPLICATE")),
       Row("plain", Str("https://example.org/report.html"), Str("Closed")) >>

\* Media references for the URL type detection.
MediaPool ==
    << Row("dict", Str("https://cdn.example.com/photo.jpg?x=1"), Str("")),
       Row("plain", Str("https://cdn.example.com/A.JPG"), Str("")),
       Row("plain", Str("https://cdn.example.com/a.jpeg"), Str("Duplicate")),
       Row("plain", Str("https://cdn.example.com/a.png?w=2"), Str("")),
       Row("dict", Str("https://cdn.example.com/a.webp"), Str("")),
       Row("plain", Str("https://cdn.example.com/a.gif"), Str("")),
       Row("plain", Str("https://cdn.example.com/a.bmp?x=1"), Str("")),
       Row("plain", Str("https://sf.verintcloudservices.com/a.gif?caseid=3"), Str("")),
       Row("plain", Str("https://sf.verintcloudservices.com/a.png?caseid=3"), Str("")),
       Row("plain", Str(PortalA), Str("")),
       Row("dict", Str(PortalB), Str("")),
       Row("plain", Str("https://sf.verintcloudservices.com/d?caseid=5&f=a.jpg"), Str("")),
       Row("plain", Str("https://sf.verintcloudservices.com/a.jpg/d?caseid=5"), Str("")),
       Row("plain", Str("https://sf.verintcloudservices.com/d"), Str("")),
       Row("plain", Str("https://sf.verintcloudservices.com/d?x=1"), Str("")),
       Row("plain", Str("https://sf.verintcloudservices.com/d?caseid="), Str("")),
       Row("plain", Str("https://sf.verintcloudservices.com/d?caseid=&x=1"), Str("")),
       Row("plain", Str("https://sf.verintcloudservices.com/d?caseid"), Str("")),
       Row("plain", Str("https://sf.verintcloudservices.com/d?CaseID=4"), Str("")),
       Row("plain", Str("https://sf.verintcloudservices.com/d#x?caseid=4"), Str("")),
       Row("plain", Str("https://sf.verintcloudservices.com/d?x=1&caseid=9"), Str("")),
       Row("plain", Str("https://example.org/report.html"), Str("")),
       Row("plain", Str("https://example.org/a.png/info"), Str("")),
       Row("plain", Str("https://example.org/view?img=a.jpg"), Str("")),
       Row("plain", Str("https://example.org/r?caseid=1&u=verintcloudservices"), Str("")),
       Row("plain", Str("https://example.org/r?u=verintcloudservices"), Str("")),
       Row("plain", Str(""), Str("")),
       Row("plain", None, Str("")),
       Row("plain", NaN, Str("")),
       Row("dict", None, Str("")) >>

\* Rows of a single portal resolution.
WrapperRows == << Row("plain", Str(PortalA), Str("")) >>

\* The wrapper page: an exception of the GET, or a status with the two
\* regex searches' results on its markup (None: no match).
Page(status, formref, csrf) ==
    [t |-> "http", v |-> "", status |-> status, formref |-> formref,
     csrf |-> csrf]

RaisePage(kind) ==
    [t |-> "error", v |-> kind, status |-> 0, formref |-> None, csrf |-> None]

PageResponses ==
    { RaisePage("Timeout"), RaisePage("ConnectionError"),
      Page(200, Str("F1"), Str("T1")), Page(200, Str("F1"), None),
      Page(200, None, Str("T1")), Page(200, None, None),
      Page(404, None, None), Page(500, Str("F1"), Str("T1")) }

\* The handshake: an exception, or a status and the response's
\* Authorization header (None: the header is not there).
HandshakeResponses ==
    { [t |-> "error", v |-> "Timeout", status |-> 0, auth |-> None],
      [t |-> "http", v |-> "", status |-> 200, auth |-> Str("Bearer B1")],
      [t |-> "http", v |-> "", status |-> 200, auth |-> None],
      [t |-> "http", v |-> "", status |-> 500, auth |-> None],
      [t |-> "http", v |-> "", status |-> 401, auth |-> Str("Bearer B2")] }

\* The handshakes of the runs that vary the listing and the payload: one
\* that raises and one that grants an Authorization value.
FetchHandshakeResponses ==
    { r \in HandshakeResponses :
        r.t = "error" \/ (r.status = 200 /\ r.auth # None) }

\* A JSON body: shape says what the body is, txt holds the string under
\* data.formdata_filenames or data.txt_file when shape is "string".
\*   not_json       the body is not JSON
\*   not_object     JSON, but no object at the top (a list)
\*   no_data        an object without a data key
\*   data_not_object  data is null, a string, a list
\*   no_field       data is an object without the field
\*   field_null     the field is null
\*   string         the field is the string txt
Body(status, shape, txt) ==
    [t |-> "http", v |-> "", status |-> status, shape |-> shape, txt |-> txt]

RaiseBody(kind) ==
    [t |-> "error", v |-> kind, status |-> 0, shape |-> "", txt |-> ""]

BrokenBodies ==
    { RaiseBody("Timeout"), RaiseBody("ConnectionError") }
    \cup { Body(200, sh, "") :
             sh \in {"not_json", "not_object", "no_data", "data_not_object",
                     "no_field", "field_null"} }

ListBodies ==
    { RaiseBody("Timeout"), Body(200, "not_json", ""),
      Body(200, "string", "case123.jpg;case123_map.jpg"),
      Body(500, "string", "photo.png"),
      Body(200, "string", "case123_map.jpg;m.jpg"),
      Body(200, "string", "") }

DownloadBodies ==
    { RaiseBody("ConnectionError"), Body(200, "field_null", ""),
      Body(200, "string", "data:image/jpeg;base64,/9j/4AAQSkZJRg=="),
      Body(200, "string", ""),
      Body(500, "string", "QUJD") }

\* Attachment names a case may list; listings join up to MaxFiles of them.
NamePool ==
    << "case123.jpg", "case123_map.jpg", " IMG.PNG ", "b.jpeg", "room.jpg",
       "x_MAP.JPEG", "", "photo.jpg.txt" >>

RECURSIVE Join(_, _)
Join(names, sep) ==
    IF names = <<>> THEN ""
    ELSE IF Len(names) = 1 THEN names[1]
    ELSE names[1] \o sep \o Join(Tail(names), sep)

Listings == { Join(names, ";") : names \in SeqsUpTo(NamePool, MaxFiles) }

RichListBodies ==
    BrokenBodies \cup { Body(200, "string", l) : l \in Listings }

Payloads ==
    { "data:image/jpeg;base64,/9j/4AAQSkZJRg==", "QUJD", "QUJDRA==", "QUJ", "Q",
      "", ",", "data:,QUI=", "x,QUFB,QkJC", "data:a,b;base64,QUJD", "QUFB,",
      ",QUJD,", "data:image/png;base64,QU JD", "data:image/png;base64,****" }

RichDownloadBodies ==
    BrokenBodies
    \cup { Body(500, "string", "QUJD"), Body(403, "not_json", "") }
    \cup { Body(200, "string", p) : p \in Payloads }

(***************************************************************************)
(* State                                                                   *)
(***************************************************************************)
VARIABLES
    pc,              \* where the script is
    upstream,        \* the rows the open-data API holds for the query
    feed_response,   \* what the API answered to get_soma_data
    df,              \* the rows get_soma_data returned
    i,               \* the row the loop is at (1-based)
    img_content,     \* the loop's img_content for row i
    display_list,    \* entries [content, row]: row is the row's index in df
    cache,           \* st.cache_data of fetch_verint_image: url -> result
    raised,          \* the exception that escaped to the script's top level
    \* locals of the running fetch_verint_image call
    wrapper_url, url_case_id, r_page, formref, csrf_token, headers,
    r_handshake, r_list, target_filename, r_image,
    session,         \* the call's requests.Session: its number, its cookies
    calls,           \* the network calls of the running call, in order
    sessions_made    \* how many requests.Session objects were created

vars ==
    << pc, upstream, feed_response, df, i, img_content, display_list, cache,
       raised, wrapper_url, url_case_id, r_page, formref, csrf_token,
       headers, r_handshake, r_list, target_filename, r_image, session,
       calls, sessions_made >>

locals ==
    << wrapper_url, url_case_id, r_page, formref, csrf_token, headers,
       r_handshake, r_list, target_filename, r_image, session, calls >>

NoHeaders == [csrf |-> None, auth |-> None]

NoPage ==
    [t |-> "none", v |-> "", status |-> 0, formref |-> None, csrf |-> None]

NoHandshake == [t |-> "none", v |-> "", status |-> 0, auth |-> None]

NoSession == [id |-> 0, cookies |-> {}]

NoBody == [t |-> "none", v |-> "", status |-> 0, shape |-> "", txt |-> ""]

NoEntries == [u \in {} |-> None]

InitWith(feeds) ==
    /\ pc = "start"
    /\ upstream \in feeds
    /\ feed_response = "pending"
    /\ df = <<>>
    /\ i = 0
    /\ img_content = None
    /\ display_list = <<>>
    /\ cache = NoEntries
    /\ raised = ""
    /\ wrapper_url = ""
    /\ url_case_id = None
    /\ r_page = NoPage
    /\ formref = None
    /\ csrf_token = None
    /\ headers = NoHeaders
    /\ r_list = NoBody
    /\ target_filename = None
    /\ r_image = NoBody
    /\ r_handshake = NoHandshake
    /\ session = NoSession
    /\ calls = <<>>
    /\ sessions_made = 0

ClearLocals ==
    /\ wrapper_url' = ""
    /\ url_case_id' = None
    /\ r_page' = NoPage
    /\ formref' = None
    /\ csrf_token' = None
    /\ headers' = NoHeaders
    /\ r_list' = NoBody
    /\ target_filename' = None
    /\ r_image' = NoBody
    /\ r_handshake' = NoHandshake
    /\ session' = NoSession
    /\ calls' = <<>>

(***************************************************************************)
(* get_soma_data and the head of the feed section                          *)
(***************************************************************************)
FeedResponses == {"ok", "http_error", "not_json", "Timeout", "ConnectionError"}

\* requests.get without a timeout and outside any try, then r.json() on a
\* 200: an exception of either leaves the function and the script.
GetSomaData ==
    /\ pc = "start"
    /\ \E resp \in FeedResponses :
         /\ feed_response' = resp
         /\ CASE resp = "ok" ->
                   /\ df' = upstream
                   /\ raised' = raised
                   /\ IF upstream = <<>>
                      THEN pc' = "done" /\ i' = i
                      ELSE pc' = "row" /\ i' = 1
              [] resp = "http_error" ->
                   /\ df' = <<>>
                   /\ raised' = raised
                   /\ pc' = "done"
                   /\ i' = i
              [] resp = "not_json" ->
                   /\ raised' = "JSONDecodeError"
                   /\ pc' = "crashed"
                   /\ UNCHANGED << df, i >>
              [] OTHER ->
                   /\ raised' = resp
                   /\ pc' = "crashed"
                   /\ UNCHANGED << df, i >>
    /\ UNCHANGED << upstream, img_content, display_list, cache,
                    sessions_made >>
    /\ UNCHANGED locals

(***************************************************************************)
(* The pre-processing loop                                                 *)
(***************************************************************************)
AfterRowBreaksOnNoImage ==
    IF i < Len(df) /\ (pc = "row" \/ Truthy(img_content))
    THEN "row" ELSE "done"

AfterRow == IF i < Len(df) THEN "row" ELSE "done"

\* One pass of the loop body up to the call of fetch_verint_image: the
\* duplicate filter, the URL and its type.
RowStep ==
    /\ pc = "row"
    /\ LET row == df[i]
           url == MediaUrlOf(row.media_url)
           kind == Classify(url)
       IN  IF IsDuplicate(row)
           THEN /\ pc' = AfterRow
                /\ i' = i + 1
                /\ img_content' = None
                /\ wrapper_url' = wrapper_url
           ELSE /\ i' = i
                /\ CASE kind = "DirectImage" ->
                          /\ img_content' = url
                          /\ pc' = "emit"
                          /\ wrapper_url' = wrapper_url
                     [] kind = "PortalWrapper" ->
                          /\ img_content' = None
                          /\ pc' = "call"
                          /\ wrapper_url' = PyStr(url)
                     [] OTHER ->
                          /\ img_content' = None
                          /\ pc' = "emit"
                          /\ wrapper_url' = wrapper_url
    /\ UNCHANGED << upstream, feed_response, df, display_list, cache, raised,
                    url_case_id, r_page, formref, csrf_token, headers,
                    r_handshake, r_list, target_filename, r_image, session,
                    calls, sessions_made >>

\* "if img_content: display_list.append(...)" and the step to the next row;
\* the finished call's locals are gone.
RowEmit ==
    /\ pc = "emit"
    /\ display_list' =
         IF Truthy(img_content)
         THEN Append(display_list, [content |-> img_content, row |-> i])
         ELSE display_list
    /\ pc' = AfterRow
    /\ i' = i + 1
    /\ img_content' = None
    /\ ClearLocals
    /\ UNCHANGED << upstream, feed_response, df, cache, raised,
                    sessions_made >>

(***************************************************************************)
(* fetch_verint_image                                                      *)
(***************************************************************************)
ReturnForgetsFailure(value) ==
    /\ img_content' = value
    /\ cache' = IF value = None THEN cache ELSE (wrapper_url :> value) @@ cache
    /\ pc' = "emit"
    /\ raised' = raised

\* The function returns value: the cache keeps it under the URL and the
\* loop gets it as img_content.
Return(value) ==
    /\ img_content' = value
    /\ cache' = (wrapper_url :> value) @@ cache
    /\ pc' = "emit"
    /\ raised' = raised

\* ttl=3600: an hour after it was stored an entry is gone.  The cache is
\* read only when a call starts, so the hour may end between two records
\* or after the last one: an expiry during a call shows at the same
\* lookups as one right after it.
Expire ==
    /\ pc \in {"row", "done"}
    /\ \E u \in DOMAIN cache :
         cache' = [v \in DOMAIN cache \ {u} |-> cache[v]]
    /\ UNCHANGED << pc, upstream, feed_response, df, i, img_content,
                    display_list, raised, sessions_made >>
    /\ UNCHANGED locals

\* An exception of the given kind inside the function's try.
Throw(kind) ==
    IF Catches(kind)
    THEN Return(None)
    ELSE /\ raised' = kind
         /\ pc' = "crashed"
         /\ UNCHANGED << img_content, cache >>

\* A GET carries no JSON body.
NoPayload == [caseid |-> None, formref |-> None, filename |-> None]

\* nested_payload: "data" holds str(url_case_id) and the scraped formref.
NestedPayload ==
    [caseid |-> Str(PyStr(url_case_id)), formref |-> formref,
     filename |-> None]

\* download_payload: the shallow copy of nested_payload with the chosen
\* filename put into its "data".
DownloadPayload == [NestedPayload EXCEPT !.filename = target_filename]

\* One call through the session: the headers and the JSON body passed to
\* it, and the session's cookies at that moment.
Sent(call, hdrs, payload) ==
    [call |-> call, headers |-> hdrs, caseid |-> payload.caseid,
     formref |-> payload.formref, filename |-> payload.filename,
     session |-> session.id, cookies |-> session.cookies]

\* The session keeps the cookies of every response it receives.
Received(call, resp) ==
    IF IsError(resp) THEN session
    ELSE [session EXCEPT !.cookies = @ \cup {call}]

SharedSession == [id |-> 1, cookies |-> session.cookies]

\* "session = requests.Session()": a new object with an empty cookie jar.
NewSession == [id |-> sessions_made + 1, cookies |-> {}]

\* The "headers" dictionary literal: no CSRF and no Authorization entry.
NewHeaders == NoHeaders

\* The cached call: a stored result comes back without running the body;
\* otherwise the body starts with the session and the case id.
FetchEnter ==
    /\ pc = "call"
    /\ IF wrapper_url \in DOMAIN cache
       THEN /\ img_content' = cache[wrapper_url]
            /\ pc' = "emit"
            /\ UNCHANGED << cache, raised, url_case_id >>
            /\ UNCHANGED << session, headers, sessions_made >>
       ELSE LET id == CaseId(wrapper_url)
            IN  /\ session' = NewSession
                /\ sessions_made' = sessions_made + 1
                /\ headers' = NewHeaders
                /\ url_case_id' = id
                /\ IF ~Truthy(id)
                   THEN Return(None)
                   ELSE /\ pc' = "page"
                        /\ UNCHANGED << img_content, cache, raised >>
    /\ UNCHANGED << upstream, feed_response, df, i, display_list, wrapper_url,
                    r_page, formref, csrf_token, r_handshake, r_list,
                    target_filename, r_image, calls >>

FormrefNeverMissing(resp) == FALSE

\* "if not formref_match: return None"
FormrefMissing(resp) == ~Truthy(resp.formref)

\* Step 2 and 3: the page GET with the browser headers, the status test
\* and the two scrapes; formref is mandatory, the CSRF token is not.
PageFailedOnClientErrorOnly(resp) == resp.status \in 400..499

\* "if r_page.status_code != 200: return None"
PageFailed(resp) == resp.status # 200

PageGet ==
    /\ pc = "page"
    /\ \E resp \in PageResponses :
         /\ calls' = Append(calls, Sent("page", headers, NoPayload))
         /\ r_page' = resp
         /\ session' = Received("page", resp)
         /\ IF IsError(resp) THEN
                Throw(resp.v) /\ UNCHANGED << formref, csrf_token >>
            ELSE IF PageFailed(resp) THEN
                Return(None) /\ UNCHANGED << formref, csrf_token >>
            ELSE IF FormrefMissing(resp) THEN
                Return(None) /\ UNCHANGED << formref, csrf_token >>
            ELSE /\ formref' = resp.formref
                 /\ csrf_token' = resp.csrf
                 /\ pc' = "handshake"
                 /\ UNCHANGED << img_content, cache, raised >>
    /\ UNCHANGED << upstream, feed_response, df, i, display_list, wrapper_url,
                    url_case_id, headers, r_handshake, r_list,
                    target_filename, r_image, sessions_made >>

\* Step 4: the handshake inside its own "try ... except: pass".  The CSRF
\* header is set before the GET; the Authorization header is copied from
\* the response when it has one, whatever its status.
SwallowsNothing(kind) == FALSE

\* The handshake's own "except: pass" takes every exception.
Swallows(kind) == TRUE

HeadersIgnoringAuth(hdrs, resp) == hdrs

\* "if 'Authorization' in r_handshake.headers: headers[...] = ..."; an
\* exception leaves the dictionary as it was.
HeadersWithAuth(hdrs, resp) ==
    IF ~IsError(resp) /\ resp.auth # None
    THEN [hdrs EXCEPT !.auth = resp.auth]
    ELSE hdrs

Handshake(responses) ==
    /\ pc = "handshake"
    /\ \E resp \in responses :
         LET sent == [headers EXCEPT
                        !.csrf = IF Truthy(csrf_token) THEN csrf_token ELSE @]
         IN  /\ calls' = Append(calls, Sent("handshake", sent, NoPayload))
             /\ r_handshake' = resp
             /\ session' = Received("handshake", resp)
             /\ IF IsError(resp) /\ ~Swallows(resp.v)
                THEN Throw(resp.v) /\ headers' = sent
                ELSE /\ headers' = HeadersWithAuth(sent, resp)
                     /\ pc' = "list"
                     /\ UNCHANGED << img_content, cache, raised >>
    /\ UNCHANGED << upstream, feed_response, df, i, display_list, wrapper_url,
                    url_case_id, r_page, formref, csrf_token, r_list,
                    target_filename, r_image, sessions_made >>

\* resp.json().get('data', {}).get(field, ""): the string, None for a JSON
\* null, or the exception of the first step that fails.
JsonField(resp) ==
    CASE resp.shape = "not_json" -> Raise("JSONDecodeError")
      [] resp.shape = "not_object" -> Raise("AttributeError")
      [] resp.shape = "no_data" -> Str("")
      [] resp.shape = "data_not_object" -> Raise("AttributeError")
      [] resp.shape = "no_field" -> Str("")
      [] resp.shape = "field_null" -> None
      [] OTHER -> Str(resp.txt)

\* Step 5 and 6: the listing POST (its status is not looked at) and the
\* filename filter.
NoTargetNever(target) == FALSE

\* "if not target_filename: return None"
NoTarget(target) == ~Truthy(target)

ListPost(bodies) ==
    /\ pc = "list"
    /\ \E resp \in bodies :
         LET filename_str == JsonField(resp)
             target == SelectFilename(filename_str.v)
         IN  /\ calls' = Append(calls, Sent("list", headers, NestedPayload))
             /\ r_list' = resp
             /\ session' = Received("list", resp)
             /\ IF IsError(resp) THEN
                    Throw(resp.v) /\ target_filename' = target_filename
                ELSE IF IsError(filename_str) THEN
                    Throw(filename_str.v) /\ target_filename' = target_filename
                ELSE IF filename_str = None THEN
                    Throw("AttributeError") /\ target_filename' = target_filename
                ELSE IF NoTarget(target) THEN
                    Return(None) /\ target_filename' = target
                ELSE /\ target_filename' = target
                     /\ pc' = "download"
                     /\ UNCHANGED << img_content, cache, raised >>
    /\ UNCHANGED << upstream, feed_response, df, i, display_list, wrapper_url,
                    url_case_id, r_page, formref, csrf_token, headers,
                    r_handshake, r_image, sessions_made >>

\* Lines 148-149.
DecodePayload(b64_data) == B64Decode(StripPrefix(b64_data))

\* Step 7: the download POST; only a 200 is decoded, any other status
\* falls through to the final "return None".
DownloadPost(bodies) ==
    /\ pc = "download"
    /\ \E resp \in bodies :
         LET b64_data == JsonField(resp)
             decoded == DecodePayload(b64_data.v)
         IN  /\ calls' = Append(calls, Sent("download", headers, DownloadPayload))
             /\ r_image' = resp
             /\ session' = Received("download", resp)
             /\ IF IsError(resp) THEN Throw(resp.v)
                ELSE IF resp.status # 200 THEN Return(None)
                ELSE IF IsError(b64_data) THEN Throw(b64_data.v)
                ELSE IF b64_data = None THEN Throw("TypeError")
                ELSE IF IsError(decoded) THEN Throw(decoded.v)
                ELSE Return(decoded)
    /\ UNCHANGED << upstream, feed_response, df, i, display_list, wrapper_url,
                    url_case_id, r_page, formref, csrf_token, headers,
                    r_handshake, r_list, target_filename, sessions_made >>

(***************************************************************************)
(* Specifications                                                          *)
(***************************************************************************)
\* A run of the feed section over a feed of up to MaxFeed rows.
Init == InitWith(SeqsUpTo(RowPool, MaxFeed))

Next ==
    \/ GetSomaData
    \/ RowStep
    \/ RowEmit
    \/ FetchEnter
    \/ PageGet
    \/ Handshake(HandshakeResponses)
    \/ ListPost(ListBodies)
    \/ DownloadPost(DownloadBodies)
    \/ Expire

Spec == Init /\ [][Next]_vars

\* The same run over every kind of media reference, one row at a time.
InitClassify == InitWith(SeqsUpTo(MediaPool, 1))

SpecClassify == InitClassify /\ [][Next]_vars

\* One portal resolution against every listing of up to MaxFiles names and
\* every payload.
InitFetch == InitWith(SeqsUpTo(WrapperRows, 1))

NextFetch ==
    \/ GetSomaData
    \/ RowStep
    \/ RowEmit
    \/ FetchEnter
    \/ PageGet
    \/ Handshake(FetchHandshakeResponses)
    \/ ListPost(RichListBodies)
    \/ DownloadPost(RichDownloadBodies)

SpecFetch == InitFetch /\ [][NextFetch]_vars

(***************************************************************************)
(* Vocabulary of the properties                                            *)
(***************************************************************************)
\* The loop is inside the body of row i, after the duplicate filter.
InRow == pc \in {"emit", "call", "page", "handshake", "list", "download"}

InCall == pc \in {"page", "handshake", "list", "download"}

CurrentUrl == MediaUrlOf(df[i].media_url)

SixExtensions == <<".jpg", ".jpeg", ".png", ".gif", ".webp", ".bmp">>

FourExtensions == <<".jpg", ".jpeg", ".png", ".webp">>

\* The URL with its query string stripped, lower-cased, ends in one of exts.
EndsInAny(url, exts) ==
    /\ url.t = "str"
    /\ \E k \in 1..Len(exts) :
         EndsWith(Lower(Split1(url.v, "?")[1]), exts[k])

\* The host of a URL: what follows "://" up to the first '/', '?' or '#'.
UrlHost(u) ==
    LET p == Find(u, ":")
        rest == IF p > 0 /\ SubSeq(u, p, p + 2) = "://"
                THEN SubSeq(u, p + 3, Len(u))
                ELSE u
    IN  Split1(Split1(Split1(rest, "/")[1], "?")[1], "#")[1]

OnPortalHost(url) ==
    /\ url.t = "str"
    /\ Contains(Lower(UrlHost(url.v)), "verintcloudservices")

\* Row i took the direct branch: its URL is the content, nothing was called.
ShownDirectly ==
    /\ pc = "emit"
    /\ Truthy(img_content)
    /\ img_content = CurrentUrl
    /\ wrapper_url = ""
    /\ calls = <<>>

\* Row i went to fetch_verint_image.
SentToPortal == wrapper_url # ""

(***************************************************************************)
(* C1                                                                      *)
(***************************************************************************)
\* C1, as stated: a media reference (plain or structured) whose URL, query
\* string stripped and lower-cased, ends in .jpg .jpeg .png .gif .webp or
\* .bmp takes the direct branch: the content is the original URL, query
\* string included, and no portal call is made.
C1_SixExtensionsDirect ==
    (InRow /\ EndsInAny(CurrentUrl, SixExtensions)) => ShownDirectly

\* C1, amended: the same for a row that passes the duplicate filter and
\* whose stripped, lower-cased URL ends in .jpg .jpeg .png or .webp; the
\* entry appended to the display list holds the original URL.
C1_FourExtensionsDirect ==
    /\ (InRow /\ EndsInAny(CurrentUrl, FourExtensions)) => ShownDirectly
    /\ \A k \in 1..Len(display_list) :
         LET url == MediaUrlOf(df[display_list[k].row].media_url)
         IN  EndsInAny(url, FourExtensions) => display_list[k].content = url

\* A structured reference with a query string after .jpg is on display
\* with the query string kept.
C1_Witness ==
    \E k \in 1..Len(display_list) :
        /\ df[display_list[k].row].media_url.form = "dict"
        /\ display_list[k].content = Str("https://cdn.example.com/photo.jpg?x=1")

(***************************************************************************)
(* C2                                                                      *)
(***************************************************************************)
\* C2: a reference takes the direct branch only when its URL, query string
\* stripped, ends in an image extension; a portal-host URL that does not is
\* resolved through fetch_verint_image, never shown as a direct URL.
C2_DirectOnlyBySuffix ==
    /\ (InRow /\ ShownDirectly) => EndsInAny(CurrentUrl, SixExtensions)
    /\ (pc = "emit" /\ OnPortalHost(CurrentUrl)
          /\ ~EndsInAny(CurrentUrl, SixExtensions))
       => (SentToPortal /\ wrapper_url = CurrentUrl.v)

(***************************************************************************)
(* C3                                                                      *)
(***************************************************************************)
\* A reference that is empty or null, holds no URL, or is a plain link
\* neither image-suffixed nor on the portal host.
Unusable(url) ==
    \/ url.t # "str"
    \/ url.v = ""
    \/ (~EndsInAny(url, SixExtensions) /\ ~OnPortalHost(url))

\* C3: an unusable reference yields "no image" (nothing is appended for
\* the row) and no portal network call is issued for it.
C3_UnusableNoImageNoCall ==
    (InRow /\ Unusable(CurrentUrl)) =>
        /\ ~InCall
        /\ calls = <<>>
        /\ (pc = "emit" => ~Truthy(img_content))

(***************************************************************************)
(* C4                                                                      *)
(***************************************************************************)
\* The query string has a caseid parameter with a value.
HasCaseIdValue(u) ==
    LET fields == Split(UrlQuery(u), "&")
    IN  \E k \in 1..Len(fields) :
          /\ Len(fields[k]) > 7
          /\ SubSeq(fields[k], 1, 7) = "caseid="

\* C4: for a wrapper URL whose query string has no caseid parameter, or an
\* empty one, fetch_verint_image returns None without any network call.
C4_NoCaseIdNoCall ==
    (SentToPortal /\ ~HasCaseIdValue(wrapper_url)) =>
        /\ ~InCall
        /\ calls = <<>>
        /\ (pc = "emit" => img_content = None)

\* The call returned for a portal URL with an empty caseid.
C4_Witness ==
    /\ pc = "emit"
    /\ wrapper_url = "https://sf.verintcloudservices.com/d?caseid=&x=1"
    /\ url_case_id = None
    /\ img_content = None
    /\ calls = <<>>

(***************************************************************************)
(* C5                                                                      *)
(***************************************************************************)
PageLoaded == r_page.t = "http" /\ r_page.status = 200

\* C5: when the page loads but formref cannot be scraped, the call returns
\* None after the page GET alone (no handshake, listing or download); a
\* missing CSRF token alone never fails the call: the later calls are made
\* and a good download still comes back as bytes.
C5_FormrefMandatoryCsrfOptional ==
    /\ (PageLoaded /\ r_page.formref = None) =>
          /\ pc = "emit"
          /\ img_content = None
          /\ Len(calls) = 1
          /\ calls[1].call = "page"
    /\ (pc = "emit" /\ PageLoaded /\ r_page.formref # None
          /\ r_page.csrf = None) =>
          /\ Len(calls) >= 3
          /\ calls[2].call = "handshake"
          /\ calls[3].call = "list"
          /\ (r_image = Body(200, "string", "QUJD")
                => img_content = Bytes("414243"))

\* A page that loaded with a CSRF token but without formref ended the call.
C5_Witness ==
    /\ pc = "emit"
    /\ PageLoaded
    /\ r_page.formref = None
    /\ r_page.csrf # None
    /\ img_content = None
    /\ Len(calls) = 1

(***************************************************************************)
(* C6                                                                      *)
(***************************************************************************)
\* The listing answered with a string under data.formdata_filenames.
Listed == r_list.t = "http" /\ r_list.shape = "string"

\* A listed entry is a map artifact: its name holds m.jpg, _map.jpg or
\* _map.jpeg, in any letter case.
MapArtifact(entry) ==
    LET n == Lower(entry)
    IN  Contains(n, "m.jpg") \/ Contains(n, "_map.jpg") \/ Contains(n, "_map.jpeg")

\* A listed entry qualifies: trimmed it is not blank, it ends in .jpg,
\* .jpeg or .png in any letter case, and it is no map artifact.
Qualifies(entry) ==
    LET n == Lower(Strip(entry))
    IN  /\ Strip(entry) # ""
        /\ EndsWith(n, ".jpg") \/ EndsWith(n, ".jpeg") \/ EndsWith(n, ".png")
        /\ ~MapArtifact(entry)

\* The canonical choice over a listing: the first qualifying entry,
\* trimmed; None when there is none.
CanonicalChoice(listing) ==
    LET entries == Split(listing, ";")
        good == {k \in 1..Len(entries) : Qualifies(entries[k])}
    IN  IF good = {} THEN None
        ELSE Str(Strip(entries[CHOOSE k \in good : \A j \in good : k <= j]))

\* C6: the selected filename is the first listed entry that qualifies under
\* the canonical policy, None when no entry does, and it is the name the
\* download asks for; "case123.jpg;case123_map.jpg" yields "case123.jpg".
C6_CanonicalSelection ==
    /\ (Listed /\ Len(calls) = 3) =>
          /\ target_filename = CanonicalChoice(r_list.txt)
          /\ (r_list.txt = "case123.jpg;case123_map.jpg"
                => target_filename = Str("case123.jpg"))
    /\ \A k \in 1..Len(calls) :
          calls[k].call = "download" =>
              (Truthy(target_filename) /\ calls[k].filename = target_filename)

\* A photo listed after a map thumbnail was selected and is being
\* downloaded.
C6_Witness ==
    /\ pc = "download"
    /\ r_list.txt = "case123_map.jpg;case123.jpg"
    /\ target_filename = Str("case123.jpg")

(***************************************************************************)
(* C7                                                                      *)
(***************************************************************************)
AllMapArtifacts(listing) ==
    LET entries == Split(listing, ";")
    IN  /\ listing # ""
        /\ \A k \in 1..Len(entries) : MapArtifact(entries[k])

NoDownload == \A k \in 1..Len(calls) : calls[k].call # "download"

\* C7: when every entry of a non-empty listing is a map artifact, nothing
\* is selected: the call returns None and issues no download POST.
C7_AllMapsNone ==
    /\ (Listed /\ Len(calls) = 3 /\ AllMapArtifacts(r_list.txt)) =>
          /\ target_filename = None
          /\ pc = "emit"
          /\ img_content = None
    /\ (Listed /\ target_filename = None) => (pc = "emit" /\ NoDownload)

\* A listing of two map thumbnails ended the call after the listing POST.
C7_Witness ==
    /\ pc = "emit"
    /\ r_list.txt = "case123_map.jpg;x_MAP.JPEG"
    /\ Len(calls) = 3
    /\ img_content = None

(***************************************************************************)
(* C8                                                                      *)
(***************************************************************************)
\* C8: fetch_verint_image never raises to its caller.  No exception leaves
\* a run whose feed query succeeded; a finished call hands back bytes or
\* None; and every step inside the call issues exactly one more network
\* call, the fourth at most, so the call ends.
C8_NeverRaises ==
    /\ [](pc = "crashed" => feed_response # "ok")
    /\ []((pc = "emit" /\ SentToPortal) => img_content.t \in {"none", "bytes"})
    /\ [][InCall => /\ pc' \in {"emit", "handshake", "list", "download"}
                    /\ Len(calls') = Len(calls) + 1
                    /\ Len(calls') <= 4]_vars

\* A download whose base64 text is malformed ended as None.
C8_Witness ==
    /\ pc = "emit"
    /\ r_image = Body(200, "string", "QUJ")
    /\ img_content = None
    /\ raised = ""

(***************************************************************************)
(* C9                                                                      *)
(***************************************************************************)
\* C9: when the feed query times out, fails to connect or answers with a
\* non-success status, get_soma_data yields an empty result set and the
\* run goes on to an empty grid; the failure is not propagated.
C9_FeedFailureEmptyGrid ==
    feed_response \in {"http_error", "Timeout", "ConnectionError"} =>
        /\ pc = "done"
        /\ raised = ""
        /\ df = <<>>
        /\ display_list = <<>>

(***************************************************************************)
(* C10                                                                     *)
(***************************************************************************)
\* The payload with everything up to and including its first comma
\* removed; the payload itself when it holds no comma.
AfterFirstComma(payload) ==
    IF Contains(payload, ",") THEN Split1(payload, ",")[2] ELSE payload

Downloaded ==
    /\ pc = "emit"
    /\ r_image.t = "http"
    /\ r_image.status = 200
    /\ r_image.shape = "string"

\* C10: the bytes returned for a payload are the base64 decoding of all
\* that follows its first comma, of the whole payload when it has none.
\* A text that does not decode gives no bytes: None.
C10_DecodesAfterFirstComma ==
    Downloaded =>
        LET decoded == B64Decode(AfterFirstComma(r_image.txt))
        IN  img_content = IF IsError(decoded) THEN None ELSE decoded

(***************************************************************************)
(* C11                                                                     *)
(***************************************************************************)
\* The notes are text with the word "duplicate" somewhere in it, each of
\* its letters in either case.
HasDuplicateNote(row) ==
    /\ row.status_notes.t = "str"
    /\ LET text == row.status_notes.v
       IN  \E k \in 1..Len(text) :
             /\ k + 8 <= Len(text)
             /\ \A j \in 1..9 :
                  SubSeq(text, k + j - 1, k + j - 1)
                    \in {SubSeq("duplicate", j, j), SubSeq("DUPLICATE", j, j)}

\* C11: a record whose status notes contain "duplicate" in any letter case
\* is never in the display list, whatever its media reference, and the
\* script never resolves it: it is never the record of an emit step, of a
\* call to fetch_verint_image or of a network call.
C11_DuplicatesSkipped ==
    /\ \A e \in 1..Len(display_list) :
         ~HasDuplicateNote(df[display_list[e].row])
    /\ InRow => ~HasDuplicateNote(df[i])
    /\ calls # <<>> => ~HasDuplicateNote(df[i])

\* The duplicate of a portal case was the first record and was passed over:
\* nothing shown, no call, no session, nothing cached.
C11_Witness ==
    /\ i = 2
    /\ pc \in {"row", "done"}
    /\ HasDuplicateNote(df[1])
    /\ df[1].media_url.v = PortalA
    /\ display_list = <<>>
    /\ cache = NoEntries
    /\ sessions_made = 0

(***************************************************************************)
(* C16                                                                     *)
(***************************************************************************)
\* The wrapper page was answered, by any status.
PageAnswered == r_page.t = "http"

HandshakeDone == r_handshake.t \in {"error", "http"}

HandshakeRaised == r_handshake.t = "error"

\* The listing POST follows the handshake: it is the next step or it has
\* been made as the third call.
ListingFollows ==
    \/ pc = "list" /\ Len(calls) = 2
    \/ Len(calls) >= 3 /\ calls[3].call = "list"

\* No call after the handshake carries an Authorization header.
NoAuthorizationAfterHandshake ==
    /\ headers.auth = None
    /\ \A k \in 3..Len(calls) : calls[k].headers.auth = None

\* C13 as stated: the listing POST follows whatever the handshake did, and
\* when the handshake raised, was answered with a status other than 200 or
\* was answered without an Authorization header, no later call carries an
\* Authorization header.
C13_FailedHandshakeNoAuthorization ==
    HandshakeDone =>
        /\ ListingFollows
        /\ (\/ HandshakeRaised
            \/ r_handshake.status # 200
            \/ r_handshake.auth = None) => NoAuthorizationAfterHandshake

\* C13: the listing POST follows whatever the handshake did; when the
\* handshake raised or was answered without an Authorization header, no
\* later call carries an Authorization header; an answer that has the
\* header has it sent on every later call, whatever its status.
C13_HandshakeNeverFatal ==
    HandshakeDone =>
        /\ ListingFollows
        /\ (HandshakeRaised \/ r_handshake.auth = None) =>
              NoAuthorizationAfterHandshake
        /\ (~HandshakeRaised /\ r_handshake.auth # None) =>
              /\ headers.auth = r_handshake.auth
              /\ \A k \in 3..Len(calls) :
                   calls[k].headers.auth = r_handshake.auth

\* The handshake timed out and the listing and the download were still
\* made, without an Authorization header.
C13_Witness ==
    /\ pc = "emit"
    /\ HandshakeRaised
    /\ Len(calls) = 4
    /\ calls[3].call = "list"
    /\ calls[3].headers.auth = None
    /\ calls[4].headers.auth = None

(***************************************************************************)
(* C14                                                                     *)
(***************************************************************************)
\* The Authorization value the handshake's answer carried, None when it
\* raised or carried none.
GrantedAuthorization ==
    IF r_handshake.t = "http" THEN r_handshake.auth ELSE None

\* The listing and the download POST among the calls made so far.
Posts == { k \in 1..Len(calls) : calls[k].call \in {"list", "download"} }

\* C14: the Authorization value of the handshake's answer is on the listing
\* and on the download POST exactly as received; the CSRF token scraped
\* from the page is on the handshake and on both POSTs, and no CSRF header
\* is sent when none was scraped; both POSTs carry the case id taken from
\* the wrapper URL and the formref scraped from the page.
C14_TokensPropagate ==
    /\ \A k \in Posts :
         /\ calls[k].headers.auth = GrantedAuthorization
         /\ calls[k].headers.csrf = r_page.csrf
         /\ calls[k].caseid = url_case_id
         /\ calls[k].formref = r_page.formref
    /\ Len(calls) >= 2 =>
         /\ calls[2].call = "handshake"
         /\ calls[2].headers.csrf = r_page.csrf
    /\ Len(calls) = 4 =>
         /\ calls[3].caseid = calls[4].caseid
         /\ calls[3].formref = calls[4].formref
         /\ calls[3].headers = calls[4].headers

\* A download that carried the granted Authorization value, the scraped
\* CSRF token, the case id of the URL and the scraped formref.
C14_Witness ==
    /\ Len(calls) = 4
    /\ calls[4].call = "download"
    /\ calls[4].headers.auth = Str("Bearer B1")
    /\ calls[4].headers.csrf = Str("T1")
    /\ calls[4].caseid = Str("987")
    /\ calls[4].formref = Str("F1")
    /\ calls[3].headers.auth = Str("Bearer B1")

(***************************************************************************)
(* C15                                                                     *)
(***************************************************************************)
CallOrder == <<"page", "handshake", "list", "download">>

\* The listing's answer holds an entry the canonical policy accepts.
ListingHasCandidate ==
    /\ Listed
    /\ r_list.txt # ""
    /\ CanonicalChoice(r_list.txt) # None

\* C15: the calls of one resolution are a prefix of page GET, handshake
\* GET, listing POST, download POST, so each is made at most once and there
\* are at most four; a call is made only when the case id was found, and
\* beyond the page GET only when the page answered 200 and held a formref;
\* after the listing POST the download is the next step exactly when the
\* listing holds a candidate, and otherwise the resolution has ended with
\* no image; a download names the selected file.
C15_CallOrder ==
    /\ Len(calls) <= 4
    /\ \A k \in 1..Len(calls) : calls[k].call = CallOrder[k]
    /\ calls # <<>> => url_case_id \notin {None, Str("")}
    /\ Len(calls) >= 2 =>
         /\ r_page.t = "http"
         /\ r_page.status = 200
         /\ r_page.formref \notin {None, Str("")}
    /\ Len(calls) = 3 =>
         IF ListingHasCandidate
         THEN pc = "download"
         ELSE pc = "emit" /\ img_content = None
    /\ Len(calls) = 4 =>
         /\ Listed
         /\ target_filename \notin {None, Str("")}
         /\ calls[4].filename = target_filename
    /\ InCall => Len(calls) < 4

\* All four calls were made, in order, and an image came back.
C15_Witness ==
    /\ pc = "emit"
    /\ Len(calls) = 4
    /\ calls[1].call = "page"
    /\ calls[4].call = "download"
    /\ img_content.t = "bytes"
    /\ img_content.v # ""

(***************************************************************************)
(* C17                                                                     *)
(***************************************************************************)
\* A resolution's result is a non-empty URL or non-empty bytes.
HasContent(x) == x.t \in {"str", "bytes"} /\ x.v # ""

\* The feed was fetched and the card loop started.
LoopStarted == feed_response = "ok" /\ pc # "start"

\* The step that ends record i, a duplicate passed over or a resolution
\* finished: the record is appended exactly when its resolution produced
\* content, and the loop goes to the next record or ends after the last.
RecordEnds ==
    /\ i' = i + 1
    /\ pc' = IF i < Len(df) THEN "row" ELSE "done"
    /\ display_list' =
         IF pc = "emit" /\ HasContent(img_content)
         THEN Append(display_list, [content |-> img_content, row |-> i])
         ELSE display_list

\* C17: the display list holds only records that are no duplicates, with a
\* non-empty URL or non-empty bytes as content, in feed order and each at
\* most once; the step that ends a record appends it exactly when its
\* resolution produced content, a duplicate or a failed resolution leaves
\* the list alone, and in every case the loop goes on with the next
\* record: the loop never crashes and ends only after the last record,
\* whatever became of the records before it.
C17_SiblingsUnaffected ==
    /\ [](\A e \in 1..Len(display_list) :
             /\ display_list[e].row \in 1..Len(df)
             /\ ~HasDuplicateNote(df[display_list[e].row])
             /\ HasContent(display_list[e].content)
             /\ e > 1 => display_list[e - 1].row < display_list[e].row)
    /\ [](LoopStarted => pc # "crashed")
    /\ [](LoopStarted /\ pc = "done" /\ df # <<>> => i = Len(df) + 1)
    /\ [][(pc \in {"row", "emit"} /\ i' # i) => RecordEnds]_vars
    /\ [][(pc = "emit" /\ pc' # "emit") => RecordEnds]_vars
    /\ [][(pc = "row" /\ pc' # "row" /\ HasDuplicateNote(df[i]))
             => RecordEnds]_vars
    /\ [][(display_list' # display_list \/ i' # i)
             => pc \in {"start", "row", "emit"}]_vars

\* The first record's portal resolution failed and the second record, a
\* portal photo, is shown all the same.
C17_Witness ==
    /\ pc = "done"
    /\ Len(df) = 2
    /\ df[1].media_url.v = PortalA
    /\ ~HasDuplicateNote(df[1])
    /\ Len(display_list) = 1
    /\ display_list[1].row = 2
    /\ display_list[1].content.t = "bytes"

(***************************************************************************)
(* C12                                                                     *)
(***************************************************************************)
\* fetch_verint_image is being called: the cache is asked for wrapper_url.
Lookup == pc = "call"

\* The entry of URL u is the same before and after the step.
EntryKept(u) == u \in DOMAIN cache' /\ cache'[u] = cache[u]

\* A call for a cached URL makes no network call, creates no session and
\* hands back the stored result, image bytes, empty bytes or None alike.
HitAnswersFromCache ==
    (Lookup /\ wrapper_url \in DOMAIN cache /\ pc' # "call") =>
        /\ pc' = "emit"
        /\ img_content' = cache[wrapper_url]
        /\ calls' = <<>>
        /\ sessions_made' = sessions_made
        /\ cache' = cache

\* A call that ran leaves its result, whatever it is, under its URL.
ResultStored ==
    ((Lookup \/ InCall) /\ pc' = "emit" /\ wrapper_url \notin DOMAIN cache) =>
        /\ wrapper_url \in DOMAIN cache'
        /\ cache'[wrapper_url] = img_content'

\* A step of the script removes no entry and changes none, and the only
\* entry it may add is the one of the URL being resolved; an entry goes
\* only by expiry.
OthersUntouched ==
    pc' # pc =>
        /\ \A u \in DOMAIN cache : EntryKept(u)
        /\ DOMAIN cache' \subseteq DOMAIN cache \cup {wrapper_url}

\* An entry never changes while it is there.
EntryStable ==
    \A u \in DOMAIN cache : u \in DOMAIN cache' => cache'[u] = cache[u]

\* C12: the result of fetch_verint_image is cached by wrapper URL: a call
\* for a URL that has an entry answers from it without a network call and
\* without a session; a call that runs stores its result, None included;
\* the network sequence runs only for a URL without an entry; an entry
\* never changes while it is there and no call touches the entry of
\* another URL.
C12_ReadThroughCache ==
    /\ [][HitAnswersFromCache]_vars
    /\ [][ResultStored]_vars
    /\ [][OthersUntouched]_vars
    /\ [][EntryStable]_vars
    /\ [](InCall => wrapper_url \notin DOMAIN cache)

\* The second record has the URL of the first, whose resolution failed:
\* it was answered None from the cache, without a call and without a
\* second session.
C12_Witness ==
    /\ pc = "emit"
    /\ i = 2
    /\ df[1].media_url.v = df[2].media_url.v
    /\ wrapper_url = PortalA
    /\ calls = <<>>
    /\ sessions_made = 1
    /\ img_content = None
    /\ cache[PortalA] = None
    /\ url_case_id = None

(***************************************************************************)
(* C18                                                                     *)
(***************************************************************************)
\* The script is between two records or past the last: no call is open.
BetweenRecords == pc \in {"row", "done"}

\* A call that finds no entry for its URL starts: it makes a session that
\* was never used before, with no cookie, and headers with no token.
FreshContext ==
    /\ sessions_made' = sessions_made + 1
    /\ session'.id \notin 0..sessions_made
    /\ session'.cookies = {}
    /\ headers' = [csrf |-> None, auth |-> None]
    /\ calls' = <<>>

\* C18: every call of fetch_verint_image that is not answered from the
\* cache starts with a session of its own, without cookies, and with
\* headers without tokens, and a cached call makes no session; every
\* network call goes through the session of the resolution that makes it
\* and carries only cookies received and tokens obtained earlier in that
\* same resolution; between two records no session, header, token or call
\* is left, and the cache holds nothing but results.
C18_SessionPerResolution ==
    /\ [][(Lookup /\ wrapper_url \notin DOMAIN cache /\ pc' # pc)
             => FreshContext]_vars
    /\ [][sessions_made' # sessions_made
             => (Lookup /\ wrapper_url \notin DOMAIN cache)]_vars
    /\ [](calls # <<>> => session.id = sessions_made)
    /\ [](\A k \in 1..Len(calls) :
            /\ calls[k].session = session.id
            /\ calls[k].cookies \subseteq { calls[j].call : j \in 1..(k - 1) }
            /\ calls[k].headers.csrf \in {None, r_page.csrf}
            /\ calls[k].headers.auth \in {None, GrantedAuthorization}
            /\ calls[k].caseid \in {None, url_case_id}
            /\ calls[k].formref \in {None, r_page.formref})
    /\ [](BetweenRecords =>
            /\ session = [id |-> 0, cookies |-> {}]
            /\ headers = [csrf |-> None, auth |-> None]
            /\ url_case_id = None
            /\ formref = None
            /\ csrf_token = None
            /\ r_page.t = "none"
            /\ r_handshake.t = "none"
            /\ calls = <<>>)
    /\ [](\A u \in DOMAIN cache : cache[u].t \in {"none", "bytes"})

\* The second record's resolution ran in the second session: its page GET
\* went out without a cookie and its listing POST with the cookies of its
\* own page and handshake.
C18_Witness ==
    /\ i = 2
    /\ sessions_made = 2
    /\ Len(calls) >= 3
    /\ calls[1].session = 2
    /\ calls[1].cookies = {}
    /\ calls[3].session = 2
    /\ calls[3].cookies = {"page", "handshake"}

====
